---- MODULE Spec2Model ----
(***************************************************************************)
(* PortoDash: price resolution (portodash/data_fetch.py, cache.py), the    *)
(* daily snapshot store (fetch_and_store_snapshot), the Streamlit session  *)
(* that drives them (app.py), the FX rate cache (portodash/fx.py) and the  *)
(* scheduled snapshot job with its status (portodash/scheduler.py).        *)
(*                                                                         *)
(* Time is in seconds since an arbitrary UTC midnight.  An ISO-8601 UTC     *)
(* timestamp string and the instant it denotes are the same integer: the   *)
(* isoformat()/pd.to_datetime round trip is exact at microsecond           *)
(* resolution, and tz-naive values are localised to UTC by the code.        *)
(***************************************************************************)
EXTENDS Integers, Sequences, FiniteSets, TLC

VARIABLES now, n, store, res, snap, sess, sig, last_live, wpc, wloc, sec, fx,
          sched, thr

vars == <<now, n, store, res, snap, sess, sig, last_live, wpc, wloc, sec, fx, sched,
          thr>>

----------------------------------------------------------------------------
(* Bounds of the model *)

MaxAdvances == 2
MaxCalls == 2

(* Program constants *)

cache_max_age_hours == 72
COOLDOWN_SECONDS == 60
RATE_LIMIT_EXTENDED_COOLDOWN == 3600

SecondsPerHour == 60 * 60
SecondsPerDay == 24 * SecondsPerHour

(* Python's None, for a price or a timestamp (both are >= 0 otherwise) *)
None == -1
(* Python's None for an origin / a source label *)
NoOrigin == "None"

Tickers == {"A", "B"}
PriceVals == {1, 2}
PriceOpt == PriceVals \cup {None}


----------------------------------------------------------------------------
(* Helpers *)

Max(S) == CHOOSE x \in S : \A y \in S : y <= x

Min(S) == CHOOSE x \in S : \A y \in S : x <= y

RECURSIVE SumSeq(_)
SumSeq(s) == IF s = <<>> THEN 0 ELSE Head(s) + SumSeq(Tail(s))

(* Timestamp.normalize(): the UTC day of an instant *)
Day(t) == t \div SecondsPerDay

AllNone(ts) == [t \in ts |-> None]

----------------------------------------------------------------------------
(* The snapshot store file (historical.csv)                                *)
(*   kind "missing": no file; "ok": a CSV with its header and rows;        *)
(*   "corrupt": a file pd.read_csv cannot parse (also a file without a     *)
(*   header line, which raises EmptyDataError).                            *)

MissingStore == [kind |-> "missing", rows |-> <<>>]
CorruptStore == [kind |-> "corrupt", rows |-> <<>>]
OkStore(rows) == [kind |-> "ok", rows |-> rows]

(* pd.read_csv: raises on an unparseable file *)
ReadCsv(st) ==
    IF st.kind = "ok" THEN [raised |-> FALSE, rows |-> st.rows]
    ELSE [raised |-> TRUE, rows |-> <<>>]

----------------------------------------------------------------------------
(* Portfolio holdings (portfolio.json), flattened by load_portfolio        *)

Portfolio ==
    << [ticker |-> "A", account |-> "X", shares |-> 2, cost_basis |-> 1],
       [ticker |-> "B", account |-> "Y", shares |-> 1, cost_basis |-> 1] >>

(* A portfolio file that holds one ticker in two accounts *)
TwoAccounts ==
    << [ticker |-> "A", account |-> "X", shares |-> 2, cost_basis |-> 1],
       [ticker |-> "A", account |-> "Y", shares |-> 1, cost_basis |-> 1] >>

(* The account filters of the sidebar: the holdings they can leave *)
FilteredHoldings ==
    { Portfolio, <<Portfolio[1]>>, <<Portfolio[2]>>, <<>> }

----------------------------------------------------------------------------
(* The live source: what yf.download does for a request                    *)
(*   "multi": a frame keyed per ticker; px[t] = None when t has no usable  *)
(*            "Adj Close" value (the per-ticker lookup raises)             *)
(*   "flat":  a frame that is not keyed per ticker; last = None when it    *)
(*            has no usable "Adj Close" value (empty frame)                *)
(*   "ratelimit": raises YFRateLimitError / a 429 message                  *)
(*   "error": raises any other exception                                   *)

LiveOutcomes ==
    { [kind |-> "multi", px |-> f, last |-> None] : f \in [Tickers -> PriceOpt] }
    \cup { [kind |-> "flat", px |-> AllNone(Tickers), last |-> p] : p \in PriceOpt }
    \cup { [kind |-> k, px |-> AllNone(Tickers), last |-> None] : k \in {"ratelimit", "error"} }

(* A live phase that stamps every requested ticker with the time of the    *)
(* call, priced or not                                                     *)
LivePhaseStampAll(ts, live, t_now) ==
    LET px == [t \in ts |-> CASE live.kind = "multi" -> live.px[t]
                              [] live.kind = "flat" -> live.last
                              [] OTHER -> None]
    IN  [prices  |-> px,
         origins |-> [t \in ts |-> IF px[t] # None THEN "live" ELSE NoOrigin],
         times   |-> [t \in ts |-> t_now],
         is_rate_limit |-> live.kind = "ratelimit", invoked |-> TRUE]

(* data_fetch.py 49-105: the live phase of get_current_prices *)
LivePhase(ts, live, t_now) ==
    LET none == [prices |-> AllNone(ts), origins |-> [t \in ts |-> NoOrigin],
                 times |-> AllNone(ts)]
    IN  CASE live.kind = "multi" ->
                [prices  |-> [t \in ts |-> live.px[t]],
                 origins |-> [t \in ts |-> IF live.px[t] # None THEN "live" ELSE NoOrigin],
                 times   |-> [t \in ts |-> IF live.px[t] # None THEN t_now ELSE None],
                 is_rate_limit |-> FALSE, invoked |-> TRUE]
          [] live.kind = "flat" /\ live.last # None ->
                [prices  |-> [t \in ts |-> live.last],
                 origins |-> [t \in ts |-> "live"],
                 times   |-> [t \in ts |-> t_now],
                 is_rate_limit |-> FALSE, invoked |-> TRUE]
          [] live.kind = "flat" /\ live.last = None ->
                none @@ [is_rate_limit |-> FALSE, invoked |-> TRUE]
          [] live.kind = "ratelimit" ->
                none @@ [is_rate_limit |-> TRUE, invoked |-> TRUE]
          [] OTHER ->
                none @@ [is_rate_limit |-> FALSE, invoked |-> TRUE]

----------------------------------------------------------------------------
(* cache.py: get_cached_prices                                             *)

NoCache(ts) == [raised |-> FALSE, prices |-> AllNone(ts), times |-> AllNone(ts)]

(* A lookup that takes the first row written for t, whatever its date *)
LatestRowFirstWritten(recent, t) ==
    LET I == { i \in 1..Len(recent) : recent[i].ticker = t }
    IN  recent[Min(I)]

(* cache.py 55: recent.sort_values('date').groupby('ticker').last() for t: *)
(* the row of t with the greatest date.  The store's columns price and     *)
(* date are never empty, so last() takes both from that one row.  Rows of  *)
(* t with equal dates were written by one call, last among them in file    *)
(* order for a stable sort.                                                *)
LatestRow(recent, t) ==
    LET I == { i \in 1..Len(recent) : recent[i].ticker = t }
        maxd == Max({ recent[i].date : i \in I })
    IN  recent[Max({ i \in I : recent[i].date = maxd })]

(* cache.py 33-78: the body of the try block *)
CachedPricesTry(ts, st, t_now, max_age_hours) ==
    LET rd == ReadCsv(st)
        cutoff == t_now - max_age_hours * SecondsPerHour
        InWindow(r) == r.date >= cutoff
        recent == SelectSeq(rd.rows, InWindow)
        Has(t) == \E i \in 1..Len(recent) : recent[i].ticker = t
    IN  IF rd.raised THEN [raised |-> TRUE, prices |-> AllNone(ts), times |-> AllNone(ts)]
        ELSE IF rd.rows = <<>> THEN NoCache(ts)
        ELSE IF recent = <<>> THEN NoCache(ts)
        ELSE [raised |-> FALSE,
              prices |-> [t \in ts |-> IF Has(t) THEN LatestRow(recent, t).price ELSE None],
              times  |-> [t \in ts |-> IF Has(t) THEN LatestRow(recent, t).date ELSE None]]

(* A get_cached_prices without its except clause *)
GetCachedPricesNoExcept(ts, st, t_now, max_age_hours) ==
    IF st.kind = "missing" THEN NoCache(ts)
    ELSE CachedPricesTry(ts, st, t_now, max_age_hours)

(* cache.py 12-82 *)
GetCachedPrices(ts, st, t_now, max_age_hours) ==
    IF st.kind = "missing" THEN NoCache(ts)
    ELSE LET b == CachedPricesTry(ts, st, t_now, max_age_hours)
         IN  IF b.raised THEN NoCache(ts) ELSE b

----------------------------------------------------------------------------
(* data_fetch.py: get_current_prices                                       *)

(* A merge that takes every cached price, also for a ticker priced live *)
MergeCacheOverwrite(ts, lp, c) ==
    LET Use(t) == c.prices[t] # None
    IN  [prices  |-> [t \in ts |-> IF Use(t) THEN c.prices[t] ELSE lp.prices[t]],
         origins |-> [t \in ts |-> IF Use(t) THEN "cache" ELSE lp.origins[t]],
         times   |-> [t \in ts |-> IF Use(t) THEN c.times[t] ELSE lp.times[t]]]

(* A merge that takes the cached price and leaves the timestamp unset *)
MergeCacheNoTime(ts, lp, c) ==
    LET Use(t) == lp.prices[t] = None /\ c.prices[t] # None
    IN  [prices  |-> [t \in ts |-> IF Use(t) THEN c.prices[t] ELSE lp.prices[t]],
         origins |-> [t \in ts |-> IF Use(t) THEN "cache" ELSE lp.origins[t]],
         times   |-> lp.times]

(* data_fetch.py 107-115: fill the tickers the live phase left unpriced *)
MergeCache(ts, lp, c) ==
    LET Use(t) == lp.prices[t] = None /\ c.prices[t] # None
    IN  [prices  |-> [t \in ts |-> IF Use(t) THEN c.prices[t] ELSE lp.prices[t]],
         origins |-> [t \in ts |-> IF Use(t) THEN "cache" ELSE lp.origins[t]],
         times   |-> [t \in ts |-> IF Use(t) THEN c.times[t] ELSE lp.times[t]]]

(* A fetched_at that takes the oldest timestamp instead of the newest *)
FetchedAtOldest(ts, times, t_now) ==
    LET fetched_datetimes == { times[t] : t \in ts } \ {None}
    IN  IF fetched_datetimes # {} THEN Min(fetched_datetimes) ELSE t_now

(* data_fetch.py 117-136: the newest per-ticker timestamp, else utcnow() *)
FetchedAt(ts, times, t_now) ==
    LET fetched_datetimes == { times[t] : t \in ts } \ {None}
    IN  IF fetched_datetimes # {} THEN Max(fetched_datetimes) ELSE t_now

(* A source that reports 'live' as soon as one ticker is live *)
OverallSourceAnyLive(origins) ==
    LET uniq == { origins[t] : t \in DOMAIN origins } \ {NoOrigin}
    IN  IF "live" \in uniq THEN "live"
        ELSE IF Cardinality(uniq) = 1 THEN CHOOSE o \in uniq : TRUE
        ELSE IF Cardinality(uniq) = 0 THEN "unknown"
        ELSE "mixed"

(* A source without the branch for no origin at all *)
OverallSourceNoEmptyCase(origins) ==
    LET uniq == { origins[t] : t \in DOMAIN origins } \ {NoOrigin}
    IN  IF Cardinality(uniq) = 1 THEN CHOOSE o \in uniq : TRUE
        ELSE "mixed"

(* data_fetch.py 138-145 *)
OverallSource(origins) ==
    LET uniq == { origins[t] : t \in DOMAIN origins } \ {NoOrigin}
    IN  IF Cardinality(uniq) = 1 THEN CHOOSE o \in uniq : TRUE
        ELSE IF Cardinality(uniq) = 0 THEN "unknown"
        ELSE "mixed"

(* data_fetch.py 14-147.  The result also records the call's inputs and    *)
(* intermediate values, for the properties stated about one call.          *)
GetCurrentPrices(ts, live, st, t_now) ==
    LET lp == LivePhase(ts, live, t_now)
        missing == \E t \in ts : lp.prices[t] = None
        c  == IF missing THEN GetCachedPrices(ts, st, t_now, cache_max_age_hours)
              ELSE NoCache(ts)
        m  == MergeCache(ts, lp, c)
    IN  [called |-> TRUE, at |-> t_now, ts |-> ts, live |-> live, st |-> st,
         raised |-> c.raised, raised_rate_limit |-> FALSE,
         live_invoked |-> lp.invoked, is_rate_limit |-> lp.is_rate_limit,
         live_prices |-> lp.prices, cache_called |-> missing,
         cached_prices |-> c.prices, cached_times |-> c.times,
         prices |-> m.prices, origins |-> m.origins, times |-> m.times,
         fetched_at_iso |-> FetchedAt(ts, m.times, t_now),
         source |-> OverallSource(m.origins),
         prev_sig |-> None, prev_rlu |-> None]

NotCalled ==
    [called |-> FALSE, at |-> None, ts |-> {}, live |-> [kind |-> "none"],
     st |-> MissingStore, raised |-> FALSE, raised_rate_limit |-> FALSE,
     prev_sig |-> None, prev_rlu |-> None,
     live_invoked |-> FALSE, is_rate_limit |-> FALSE,
     live_prices |-> <<>>, cache_called |-> FALSE,
     cached_prices |-> <<>>, cached_times |-> <<>>,
     prices |-> <<>>, origins |-> <<>>, times |-> <<>>,
     fetched_at_iso |-> None, source |-> NoOrigin]

----------------------------------------------------------------------------
(* data_fetch.py: fetch_and_store_snapshot                                 *)

(* prices.get(t) or 0.0 *)
PriceOrZero(prices, t) ==
    IF t \in DOMAIN prices /\ prices[t] # None THEN prices[t] ELSE 0

(* Rows whose portfolio_value is the row's own value *)
SnapshotRowsOwnTotal(holdings, prices, stamp) ==
    LET Val(h) == h.shares * PriceOrZero(prices, h.ticker)
    IN  [i \in 1..Len(holdings) |->
            LET h == holdings[i]
            IN  [date |-> stamp, account |-> h.account, ticker |-> h.ticker,
                 shares |-> h.shares, cost_basis |-> h.cost_basis,
                 price |-> PriceOrZero(prices, h.ticker),
                 current_value |-> Val(h),
                 portfolio_value |-> Val(h),
                 allocation_pct |-> IF Val(h) > 0 THEN [num |-> Val(h), den |-> Val(h)]
                                    ELSE [num |-> 0, den |-> 1]]]

(* data_fetch.py 207-237: the rows of new_df.  allocation_pct is the       *)
(* fraction num/den.                                                       *)
SnapshotRows(holdings, prices, stamp) ==
    LET Val(h) == h.shares * PriceOrZero(prices, h.ticker)
        total == SumSeq([i \in 1..Len(holdings) |-> Val(holdings[i])])
    IN  [i \in 1..Len(holdings) |->
            LET h == holdings[i]
            IN  [date |-> stamp, account |-> h.account, ticker |-> h.ticker,
                 shares |-> h.shares, cost_basis |-> h.cost_basis,
                 price |-> PriceOrZero(prices, h.ticker),
                 current_value |-> Val(h),
                 portfolio_value |-> total,
                 allocation_pct |-> IF total > 0 THEN [num |-> Val(h), den |-> total]
                                    ELSE [num |-> 0, den |-> 1]]]

(* An append that does not drop the day's existing rows *)
FilterNothing(rows, snapshot_date) == rows

(* A filter that keeps the rows of the other days in reverse order *)
FilterOtherDaysReversed(rows, snapshot_date) ==
    LET Keep(r) == Day(r.date) # snapshot_date
        kept == SelectSeq(rows, Keep)
    IN  [i \in 1..Len(kept) |-> kept[Len(kept) + 1 - i]]

(* data_fetch.py 250-251: drop the existing rows of the snapshot's day *)
FilterOtherDays(rows, snapshot_date) ==
    LET Keep(r) == Day(r.date) # snapshot_date
    IN  SelectSeq(rows, Keep)

(* data_fetch.py 185-265.  fetched_at_iso = None stands for the argument   *)
(* left out.  Returns whether the call raised, the store file it leaves    *)
(* and the rows it computed, with the holdings it was given and, for each  *)
(* holding, what prices.get(ticker) gave.  reported is for the caller:     *)
(* whether it went on to tell the user that the snapshot was updated.      *)
FetchAndStoreSnapshot(holdings, prices, st, fetched_at_iso, t_now) ==
    LET stamp == IF fetched_at_iso # None THEN fetched_at_iso ELSE t_now
        snapshot_date == Day(stamp)
        new_rows == SnapshotRows(holdings, prices, stamp)
        out(r, s) == [called |-> TRUE, raised |-> r, store |-> s, pre |-> st,
                      rows |-> new_rows, stamp |-> stamp, hs |-> holdings,
                      looked_up |-> [i \in 1..Len(holdings) |->
                                        IF holdings[i].ticker \in DOMAIN prices
                                        THEN prices[holdings[i].ticker] ELSE None],
                      reported |-> FALSE]
    IN  IF st.kind # "missing"
        THEN LET rd == ReadCsv(st)
             IN  IF rd.raised THEN out(TRUE, st)
                 ELSE IF holdings = <<>> THEN out(TRUE, st)
                 ELSE out(FALSE, OkStore(FilterOtherDays(rd.rows, snapshot_date) \o new_rows))
        ELSE IF holdings = <<>> THEN out(FALSE, CorruptStore)
             ELSE out(FALSE, OkStore(new_rows))

NoSnapshot ==
    [called |-> FALSE, raised |-> FALSE, store |-> MissingStore, pre |-> MissingStore,
     rows |-> <<>>, stamp |-> None, hs |-> <<>>, looked_up |-> <<>>, reported |-> FALSE]

----------------------------------------------------------------------------
(* app.py: the Streamlit session.  Every interaction reruns main().        *)

IdleSession ==
    [prices_cache |-> <<>>, fetched_at_iso |-> None, price_source |-> NoOrigin,
     last_fetch_time |-> None, rate_limited_until |-> None,
     last_error |-> NoOrigin, fetch_in_progress |-> FALSE]

(* app.py 264: the tickers of all holdings, before the account filters *)
all_tickers == { Portfolio[i].ticker : i \in 1..Len(Portfolio) }

(* app.py 242-261: the cooldown checks at the top of every rerun *)
Prologue(s, t_now) ==
    LET blocked == s.rate_limited_until # None /\ t_now < s.rate_limited_until
        s1 == IF s.rate_limited_until # None /\ ~blocked
              THEN [s EXCEPT !.rate_limited_until = None, !.last_error = NoOrigin]
              ELSE s
        cooling == /\ ~blocked
                   /\ s1.last_fetch_time # None
                   /\ s1.fetch_in_progress
        in_cooldown == cooling /\ (t_now - s1.last_fetch_time) < COOLDOWN_SECONDS
        s2 == IF cooling /\ ~in_cooldown
              THEN [s1 EXCEPT !.fetch_in_progress = FALSE]
              ELSE s1
    IN  [sess |-> s2, can_refresh |-> ~blocked /\ ~in_cooldown]

(* app.py 312-340 and 776-797: the session after the try/except around     *)
(* get_current_prices, r being what the call did                           *)
AfterFetch(s, r, t_now) ==
    LET s1 == [s EXCEPT !.fetch_in_progress = TRUE]
    IN  IF ~r.raised
        THEN [s1 EXCEPT !.prices_cache = r.prices,
                        !.fetched_at_iso = r.fetched_at_iso,
                        !.price_source = r.source,
                        !.last_fetch_time = t_now,
                        !.last_error = NoOrigin,
                        !.rate_limited_until = None]
        ELSE IF r.raised_rate_limit
        THEN [s1 EXCEPT !.rate_limited_until = t_now + RATE_LIMIT_EXTENDED_COOLDOWN,
                        !.last_error = "Rate limit reached"]
        ELSE [s1 EXCEPT !.last_error = "Fetch failed"]

(* app.py 288-306: rate limited on first load, prices come from the store *)
LoadCachedWhileBlocked(s, st, t_now) ==
    LET c == GetCachedPrices(all_tickers, st, t_now, cache_max_age_hours)
    IN  [s EXCEPT !.prices_cache = c.prices,
                  !.price_source = "cache",
                  !.fetched_at_iso = IF s.fetched_at_iso = None THEN t_now
                                     ELSE s.fetched_at_iso]

----------------------------------------------------------------------------
(* alpha_vantage.py, fmp.py: the secondary source adapters                 *)

(* What the provider answers to one request.  px is the price it quotes,   *)
(* per ticker.                                                             *)
(*   "quote"        a payload with prices ('05. price' / a list of quotes) *)
(*   "error"        a payload with 'Error Message'                         *)
(*   "rate_limit"   Alpha Vantage's 'Note' / FMP's 'Information' payload   *)
(*   "http_429"     HTTP status 429: raise_for_status() raises             *)
(*   "transport"    requests.get raises (connection error, timeout)        *)
AdapterResponses ==
    { [kind |-> "quote", px |-> f] : f \in [Tickers -> PriceOpt] }
    \cup { [kind |-> k, px |-> AllNone(Tickers)] :
              k \in {"error", "rate_limit", "http_429", "transport"} }

(* What a response is, for the caller that has to tell the cases apart *)
ResponseClass(resp, ts) ==
    CASE resp.kind \in {"rate_limit", "http_429"} -> "rate_limited"
      [] resp.kind = "transport" -> "transport_error"
      [] resp.kind = "quote" /\ \A t \in ts : resp.px[t] # None -> "priced"
      [] OTHER -> "no_price"

(* alpha_vantage.py 21-67 *)
fetch_quote_alpha_vantage(ticker, resp) ==
    CASE resp.kind = "transport"  -> None
      [] resp.kind = "http_429"   -> None
      [] resp.kind = "error"      -> None
      [] resp.kind = "rate_limit" -> None
      [] OTHER -> resp.px[ticker]

(* alpha_vantage.py 70-91: one request per ticker, resp[t] the answer to   *)
(* the request for t                                                       *)
fetch_prices_alpha_vantage(tickers, resp) ==
    [t \in tickers |-> fetch_quote_alpha_vantage(t, resp[t])]

(* fmp.py 21-83: one request for all tickers *)
fetch_batch_quotes_fmp(tickers, resp) ==
    IF tickers = {} THEN AllNone(tickers)
    ELSE CASE resp.kind = "transport"  -> AllNone(tickers)
           [] resp.kind = "http_429"   -> AllNone(tickers)
           [] resp.kind = "error"      -> AllNone(tickers)
           [] resp.kind = "rate_limit" -> AllNone(tickers)
           [] OTHER -> [t \in tickers |-> resp.px[t]]

(* No API key in the environment, no quote, no adapter call made *)
NoSecondary ==
    [av_key |-> FALSE, fmp_key |-> FALSE, quotes |-> AllNone(Tickers), seen |-> {}]

----------------------------------------------------------------------------
(* fx.py: get_fx_rates and its cache file                                  *)

fx_max_age_hours == 12

Currencies == {"CAD", "USD", "EUR"}

(* An empty dict of rates *)
NoRates == [c \in {} |-> None]

(* The cache file logs/fx_rates.json                                       *)
(*   "missing"  no file                                                    *)
(*   "corrupt"  a file that cannot be opened or is not a JSON object       *)
(*   "no_ts"    a JSON object without '_fetched_at'                        *)
(*   "bad_ts"   a JSON object whose '_fetched_at' fromisoformat rejects    *)
(*   "ok"       {'_fetched_at': fetched_at, 'rates': rates}                *)
NoFxFile == [kind |-> "missing", fetched_at |-> None, rates |-> NoRates]

FxFile(fetched_at, rates) == [kind |-> "ok", fetched_at |-> fetched_at, rates |-> rates]

BrokenFxFiles ==
    { [kind |-> k, fetched_at |-> None, rates |-> NoRates] :
        k \in {"corrupt", "no_ts", "bad_ts"} }

(* What open.er-api.com does for the request of the rates of the base:     *)
(* requests.get raises, the HTTP status is an error, the payload's result  *)
(* is not 'success', or the payload carries the table rates (units of the  *)
(* currency per unit of base; None: the currency is not in the table).     *)
(* write_ok: whether the cache file can be written.                        *)
FxTables ==
    { [c \in Currencies |-> CASE c = "CAD" -> 1 [] c = "USD" -> u [] OTHER -> e] :
        u \in {0, 2}, e \in {None, 4} }

FxProviderOutcomes ==
    { [kind |-> k, rates |-> NoRates, write_ok |-> TRUE] :
        k \in {"network_error", "http_error", "non_success"} }
    \cup { [kind |-> "success", rates |-> r, write_ok |-> w] :
              r \in FxTables, w \in BOOLEAN }

(* fx.py 80: 1.0 / float(v), as the exact fraction *)
Inverse(v) == [num |-> 1, den |-> v]

(* A request that keeps the base currency *)
FxRequestedWithBase(currencies, base) == currencies

(* fx.py 36: the requested currencies, without the base *)
FxRequested(currencies, base) == currencies \ {base}

(* A freshness test that still trusts an entry of exactly the maximum age *)
FxFreshInclusive(age, max_age_hours) == age <= max_age_hours * SecondsPerHour

(* fx.py 50 *)
FxFresh(age, max_age_hours) == age < max_age_hours * SecondsPerHour

(* fx.py 44-53: the body of the first try block *)
FxCacheTry(currs, file, t_now, max_age_hours) ==
    LET miss == [raised |-> FALSE, hit |-> FALSE, out |-> NoRates]
    IN  CASE file.kind = "missing" -> miss
          [] file.kind = "corrupt" -> [raised |-> TRUE, hit |-> FALSE, out |-> NoRates]
          [] file.kind = "no_ts"   -> miss
          [] file.kind = "bad_ts"  -> [raised |-> TRUE, hit |-> FALSE, out |-> NoRates]
          [] OTHER ->
                IF FxFresh(t_now - file.fetched_at, max_age_hours)
                THEN [raised |-> FALSE, hit |-> TRUE,
                      out |-> [c \in currs \cap DOMAIN file.rates |-> file.rates[c]]]
                ELSE miss

(* fx.py 59-89: the body of the second try block *)
FxFetchTry(currs, prov, file, t_now) ==
    CASE prov.kind \in {"network_error", "http_error"} ->
            [raised |-> TRUE, out |-> NoRates, file |-> file]
      [] prov.kind = "non_success" ->
            [raised |-> FALSE, out |-> NoRates, file |-> file]
      [] OTHER ->
            LET quoted == { c \in currs : prov.rates[c] # None /\ prov.rates[c] # 0 }
                out == [c \in quoted |-> Inverse(prov.rates[c])]
            IN  [raised |-> FALSE, out |-> out,
                 file |-> IF prov.write_ok THEN FxFile(t_now, out) ELSE file]

(* fx.py 58-93: the fetch with its except clause *)
FxFetch(currs, prov, file, t_now) ==
    LET f == FxFetchTry(currs, prov, file, t_now)
    IN  IF f.raised THEN [raised |-> FALSE, out |-> NoRates, file |-> file] ELSE f

(* fx.py 27-93.  The result also records the call's inputs, the cache file *)
(* before the call (pre) and after it (post), and whether the provider was *)
(* requested (network).                                                    *)
get_fx_rates(currencies, base, file, prov, t_now, max_age_hours) ==
    LET currs == FxRequested(currencies, base)
        c == FxCacheTry(currs, file, t_now, max_age_hours)
        f == FxFetch(currs, prov, file, t_now)
        rec == [called |-> TRUE, at |-> t_now, currencies |-> currencies,
                base |-> base, prov |-> prov, pre |-> file]
    IN  IF currs = {}
        THEN rec @@ [raised |-> FALSE, network |-> FALSE, out |-> NoRates, post |-> file]
        ELSE IF ~c.raised /\ c.hit
        THEN rec @@ [raised |-> FALSE, network |-> FALSE, out |-> c.out, post |-> file]
        ELSE rec @@ [raised |-> f.raised, network |-> TRUE, out |-> f.out, post |-> f.file]

NoFxCall ==
    [called |-> FALSE, at |-> None, currencies |-> {}, base |-> "CAD",
     prov |-> [kind |-> "none"], pre |-> NoFxFile, raised |-> FALSE,
     network |-> FALSE, out |-> NoRates, post |-> NoFxFile]

(* No fetch has written the cache file *)
NoFxFetch == [asked |-> {}, table |-> NoRates]

----------------------------------------------------------------------------
(* scheduler.py: the status of the daily snapshot job                      *)

(* The record of a run of the job: whether its body raised, whether its    *)
(* fetch_and_store_snapshot call was reached and raised and on what store  *)
(* file, the last_error the job left when it ended (recorded), the         *)
(* holdings it loaded, the prices get_current_prices gave it and the store *)
(* file it left                                                            *)
NoRun ==
    [ran |-> FALSE, at |-> None, portfolio |-> "none", raised |-> FALSE,
     snapshot_called |-> FALSE, snapshot_raised |-> FALSE,
     snapshot_pre |-> MissingStore, recorded |-> NoOrigin,
     hs |-> <<>>, prices |-> <<>>, store_after |-> MissingStore]

(* scheduler.py 19-24: SchedulerStatus.__init__; file is the status file   *)
(* logs/scheduler_status.json                                              *)
IdleScheduler ==
    [last_run |-> None, next_run |-> None, last_error |-> NoOrigin,
     job_running |-> FALSE,
     file |-> [last_run |-> None, next_run |-> None, last_error |-> NoOrigin,
               job_running |-> FALSE],
     run |-> NoRun]

(* The portfolio file the job loads (scheduler.py 103-105) *)
PortfolioFiles ==
    { [kind |-> "ok", holdings |-> Portfolio],
      [kind |-> "ok", holdings |-> <<>>],
      [kind |-> "unreadable", holdings |-> <<>>] }

(* scheduler.py 46-52: the dict get_status returns *)
StatusDict(sch) ==
    [last_run |-> sch.last_run, next_run |-> sch.next_run,
     last_error |-> sch.last_error, job_running |-> sch.job_running]

(* scheduler.py 75-81: _write_status_file *)
WriteStatusFile(sch) ==
    [sch EXCEPT !.file = StatusDict(sch)]

(* scheduler.py 108-109: the job passes to fetch_and_store_snapshot, as     *)
(* prices, the tuple (prices, fetched_at_iso, source) get_current_prices   *)
(* returns, and no fetched_at_iso.  prices.get(t) (data_fetch.py 212)      *)
(* raises AttributeError for the first holding, before the store file is   *)
(* touched; with no holding the loops are empty and the call goes on.      *)
SnapshotOfTuple(holdings, st, t_now) ==
    IF holdings # <<>>
    THEN [called |-> TRUE, raised |-> TRUE, store |-> st, pre |-> st,
          rows |-> <<>>, stamp |-> t_now, hs |-> holdings, looked_up |-> <<>>,
          reported |-> FALSE]
    ELSE FetchAndStoreSnapshot(holdings, <<>>, st, None, t_now)

(* scheduler.py 98-124: _snapshot_job.  Gives the status when the job has  *)
(* ended, the store file, and the records of the two calls.                *)
SnapshotJob(pf, live, st, sch, t_now) ==
    LET s0 == WriteStatusFile([sch EXCEPT !.job_running = TRUE])
        holdings == pf.holdings
        tickers == { holdings[i].ticker : i \in 1..Len(holdings) }
        r == GetCurrentPrices(tickers, live, st, t_now)
        w == SnapshotOfTuple(holdings, st, t_now)
        loaded == pf.kind = "ok"
        raised == ~loaded \/ w.raised
        s1 == IF raised
              THEN [s0 EXCEPT !.last_error = "error"]
              ELSE WriteStatusFile(
                     [WriteStatusFile([s0 EXCEPT !.last_run = t_now])
                        EXCEPT !.last_error = NoOrigin])
        s2 == WriteStatusFile([s1 EXCEPT !.job_running = FALSE])
    IN  [sched |-> [s2 EXCEPT !.run =
                      [ran |-> TRUE, at |-> t_now, portfolio |-> pf.kind,
                       raised |-> raised,
                       snapshot_called |-> loaded,
                       snapshot_raised |-> loaded /\ w.raised,
                       snapshot_pre |-> st,
                       recorded |-> s2.last_error,
                       hs |-> holdings,
                       prices |-> IF loaded THEN r.prices ELSE <<>>,
                       store_after |-> IF loaded THEN w.store ELSE st]],
         res |-> IF loaded THEN r ELSE NotCalled,
         snap |-> IF loaded THEN w ELSE NoSnapshot,
         store |-> IF loaded THEN w.store ELSE st]

(* scheduler.py 152-166: _listener, called by the scheduler when the job   *)
(* function has returned.  The job catches its own exceptions, so the      *)
(* event is EVENT_JOB_EXECUTED with exception None.                        *)
(* The next_run_time of the job after a run at t_now: the job is triggered *)
(* once a day (scheduler.py 128-138)                                       *)
NextRunTime(t_now) == t_now + SecondsPerDay

Listener(sch) ==
    WriteStatusFile(
        [WriteStatusFile([sch EXCEPT !.next_run = NextRunTime(sch.run.at)])
            EXCEPT !.last_error = NoOrigin])

----------------------------------------------------------------------------
(* State                                                                   *)
(*   now   the clock (seconds); n counts the clock advances and the        *)
(*         snapshot calls made, to bound the behaviours                    *)
(*   store the snapshot store file                                         *)
(*   res   the record of the get_current_prices call of the last step      *)
(*   snap  the record of the fetch_and_store_snapshot call of the last     *)
(*         step                                                            *)
(*   sess  st.session_state                                                *)
(*   sig   the time of the last rate-limit signal of the live source       *)
(*   last_live  for each ticker, the last time the live source priced it   *)
(*         in a call made by the session or by the job (history; a row the *)
(*         store starts with counts as observed live at its date)          *)
(*   wpc, wloc  position and locals of each overlapping snapshot call      *)
(*   sec   the secondary sources: whether their API keys are configured,   *)
(*         the quote they hold for each ticker, and the outcomes the       *)
(*         adapters have reported to their callers so far                  *)
(*   fx    the FX cache file (logs/fx_rates.json), the record of the       *)
(*         get_fx_rates call of the last step, and (history) the request   *)
(*         and the provider's table of the fetch that wrote the file       *)
(*   sched the scheduler status (_status), its status file and the record  *)
(*         of the last run of the snapshot job                             *)
(*   thr   the threads of the scheduler process, for the runs of the job   *)
(*         taken step by step: the position of the job (jpc), the holder   *)
(*         of _status._lock, and the position (rpc) of a get_status call   *)
(*         made from another thread with the dict it builds and returns,   *)
(*         and (history) the values the status has had during that call    *)

BaseStores == {MissingStore, OkStore(<<>>), CorruptStore}

(* The callers that may run fetch_and_store_snapshot at the same time on   *)
(* one store file: two sessions, or a session and a job or script          *)
Writers == {"w1", "w2"}

NoCall == [hs |-> <<>>, rows |-> <<>>, stamp |-> None, pre |-> MissingStore,
           expect |-> MissingStore, combined |-> MissingStore]

(* The last time each ticker was priced live, as far as the rows of a      *)
(* store file tell: the date of its newest row with a price                *)
ObservedIn(st) ==
    [t \in Tickers |->
        LET ds == { st.rows[i].date : i \in { j \in 1..Len(st.rows) :
                        st.rows[j].ticker = t /\ st.rows[j].price > 0 } }
        IN  IF st.kind = "ok" /\ ds # {} THEN Max(ds) ELSE None]

(* The history after a call of get_current_prices with result r *)
Observe(seen, r) ==
    [t \in Tickers |->
        IF t \in r.ts /\ r.live_prices[t] # None THEN r.at ELSE seen[t]]

NoDict ==
    [last_run |-> None, next_run |-> None, last_error |-> NoOrigin,
     job_running |-> FALSE]

IdleThreads ==
    [jpc |-> "idle", lock |-> "free", rpc |-> "idle", dict |-> NoDict, during |-> {}]

QuietCore ==
    /\ thr = IdleThreads
    /\ last_live = ObservedIn(store)
    /\ res = NotCalled
    /\ snap = NoSnapshot
    /\ sess = IdleSession
    /\ sig = None
    /\ wpc = [w \in Writers |-> "idle"]
    /\ wloc = [w \in Writers |-> NoCall]
    /\ sched = IdleScheduler

Quiet ==
    /\ QuietCore
    /\ sec = NoSecondary
    /\ fx = [file |-> NoFxFile, last |-> NoFxCall, fetched |-> NoFxFetch]

Advance(d) ==
    /\ n.ticks < MaxAdvances
    /\ now' = now + d
    /\ n' = [n EXCEPT !.ticks = @ + 1]
    /\ res' = NotCalled
    /\ snap' = NoSnapshot
    /\ fx' = [fx EXCEPT !.last = NoFxCall]
    /\ sched' = [sched EXCEPT !.run = NoRun]
    /\ UNCHANGED <<store, sess, sig, last_live, wpc, wloc, sec, thr>>

----------------------------------------------------------------------------
(* Specification SpecResolve: get_current_prices as a function of the      *)
(* requested tickers, what the live source does, the store file and the    *)
(* time of the call.  The store files are those one or two snapshot calls  *)
(* leave, with rows of the given ages at the time of the call.             *)

ResolveTime == 96 * SecondsPerHour + 30 * 60

RowAges == {30 * 60, 72 * SecondsPerHour, 73 * SecondsPerHour}

SnapshotInputs ==
    { [hs |-> hs, prices |-> pr, stamp |-> ResolveTime - a] :
        hs \in {Portfolio, <<Portfolio[1]>>, TwoAccounts},
        pr \in [Tickers -> PriceOpt], a \in RowAges }

StoreAfter(st, x) == FetchAndStoreSnapshot(x.hs, x.prices, st, x.stamp, x.stamp).store

StoreInputs ==
    BaseStores
    \cup { StoreAfter(MissingStore, x) : x \in SnapshotInputs }
    \cup UNION { { StoreAfter(StoreAfter(MissingStore, x), y) :
                      y \in { z \in SnapshotInputs : z.stamp > x.stamp } } :
                    x \in SnapshotInputs }

InitResolve ==
    /\ now = ResolveTime
    /\ n = [ticks |-> 0, calls |-> 0]
    /\ store \in StoreInputs
    /\ Quiet

Resolve(ts, live) ==
    /\ res' = GetCurrentPrices(ts, live, store, now)
    /\ UNCHANGED <<now, n, store, snap, sess, sig, last_live, wpc, wloc, sec, fx, sched, thr>>

NextResolve ==
    \E ts \in {Tickers, {"A"}} : \E live \in LiveOutcomes : Resolve(ts, live)

SpecResolve == InitResolve /\ [][NextResolve]_vars

----------------------------------------------------------------------------
(* Specification SpecSnap: any sequence of fetch_and_store_snapshot calls  *)
(* on one store file, one whole call per step.  fetched_at_iso is left out *)
(* (None), or is the time of the call, or the time of a row of the store   *)
(* (the fetched_at of prices that came from the cache).                    *)

SnapDeltas == {30 * 60, SecondsPerDay}

SnapPrices == { [t \in Tickers |-> IF t = "A" THEN a ELSE b] : a \in PriceOpt, b \in {1, None} }

StoreDates(st) == { st.rows[i].date : i \in 1..Len(st.rows) }

(* The store one earlier snapshot, taken the day before, has left *)
SeededStore ==
    StoreAfter(MissingStore, [hs |-> Portfolio, prices |-> [t \in Tickers |-> 1], stamp |-> 0])

InitSnap ==
    /\ now = SecondsPerDay
    /\ n = [ticks |-> 0, calls |-> 0]
    /\ store \in BaseStores \cup {SeededStore}
    /\ Quiet

SnapshotCall(hs, prices, fetched_at_iso) ==
    /\ n.calls < MaxCalls
    /\ n' = [n EXCEPT !.calls = @ + 1]
    /\ snap' = FetchAndStoreSnapshot(hs, prices, store, fetched_at_iso, now)
    /\ store' = snap'.store
    /\ UNCHANGED <<now, res, sess, sig, last_live, wpc, wloc, sec, fx, sched, thr>>

NextSnap ==
    \/ \E d \in SnapDeltas : Advance(d)
    \/ \E hs \in FilteredHoldings : \E pr \in SnapPrices :
         \E fa \in {None, now} \cup StoreDates(store) : SnapshotCall(hs, pr, fa)

SpecSnap == InitSnap /\ [][NextSnap]_vars

----------------------------------------------------------------------------
(* Specification Spec: one session of the dashboard over one store file,   *)
(* one whole rerun of main() per step.  The store file is missing, empty,  *)
(* unparseable, or holds the snapshot of the day before.                   *)

Deltas == {30 * 60, RATE_LIMIT_EXTENDED_COOLDOWN, 60 * SecondsPerHour}

Init ==
    /\ now = SecondsPerDay
    /\ n = [ticks |-> 0, calls |-> 0]
    /\ store \in BaseStores \cup {SeededStore}
    /\ Quiet

(* app.py 284-359: the first run of a session, prices_cache still empty *)
PageLoad(live) ==
    LET p == Prologue(sess, now)
        s == p.sess
        blocked == s.rate_limited_until # None /\ now < s.rate_limited_until
        r == GetCurrentPrices(all_tickers, live, store, now)
    IN  /\ s.prices_cache = <<>>
        /\ IF blocked
           THEN /\ sess' = LoadCachedWhileBlocked(s, store, now)
                /\ res' = NotCalled
                /\ sig' = sig
                /\ last_live' = last_live
           ELSE /\ sess' = AfterFetch(s, r, now)
                /\ res' = [r EXCEPT !.prev_sig = sig, !.prev_rlu = sess.rate_limited_until]
                /\ sig' = IF r.is_rate_limit THEN now ELSE sig
                /\ last_live' = Observe(last_live, r)
        /\ snap' = NoSnapshot
        /\ UNCHANGED <<now, n, store, wpc, wloc, sec, fx, sched, thr>>

(* app.py 762-797: the 'Refresh prices' button, enabled iff can_refresh *)
ManualRefresh(live) ==
    LET p == Prologue(sess, now)
        r == GetCurrentPrices(all_tickers, live, store, now)
    IN  /\ p.sess.prices_cache # <<>>
        /\ p.can_refresh
        /\ sess' = AfterFetch(p.sess, r, now)
        /\ res' = [r EXCEPT !.prev_sig = sig, !.prev_rlu = sess.rate_limited_until]
        /\ sig' = IF r.is_rate_limit THEN now ELSE sig
        /\ last_live' = Observe(last_live, r)
        /\ snap' = NoSnapshot
        /\ UNCHANGED <<now, n, store, wpc, wloc, sec, fx, sched, thr>>

(* app.py 804-808: the 'Update daily snapshot' button, with the holdings   *)
(* the account filters leave.  st.success (808) runs only when the call    *)
(* of line 807 returned; an exception ends the rerun with Streamlit's      *)
(* error display.                                                          *)
UpdateSnapshot(hs) ==
    LET p == Prologue(sess, now)
    IN  /\ p.sess.prices_cache # <<>>
        /\ n.calls < MaxCalls
        /\ n' = [n EXCEPT !.calls = @ + 1]
        /\ snap' = LET w == FetchAndStoreSnapshot(hs, p.sess.prices_cache, store,
                                                  p.sess.fetched_at_iso, now)
                    IN  [w EXCEPT !.reported = ~w.raised]
        /\ store' = snap'.store
        /\ sess' = p.sess
        /\ res' = NotCalled
        /\ UNCHANGED <<now, sig, last_live, wpc, wloc, sec, fx, sched, thr>>

Next ==
    \/ \E d \in Deltas : Advance(d)
    \/ \E live \in LiveOutcomes : PageLoad(live)
    \/ \E live \in LiveOutcomes : ManualRefresh(live)
    \/ \E hs \in FilteredHoldings : UpdateSnapshot(hs)

Spec == Init /\ [][Next]_vars

----------------------------------------------------------------------------
(* Specification SpecConc: fetch_and_store_snapshot step by step, for      *)
(* calls that overlap or are interrupted.  The steps are the points where  *)
(* the call touches the file:                                              *)
(*   Begin  196-240  compute new_df, test os.path.exists                   *)
(*   Read   241-259  pd.read_csv, drop the day's rows, concat              *)
(*   Open   260/263  to_csv opens the path for writing: the file is        *)
(*                   truncated                                             *)
(*   Write  260/263  to_csv writes the frame and closes the file           *)
(*   Crash           the call ends between two steps (process killed,      *)
(*                   I/O error)                                            *)
(* fetched_at_iso is the session's fetched_at: the time of the call, or    *)
(* the day before when the prices are a day old.                           *)
(* wloc[w].pre is the file when the call began and wloc[w].expect the file *)
(* the whole call would leave, had it run alone from there.                *)

ConcPrices == { [t \in Tickers |-> 1], [t \in Tickers |-> IF t = "A" THEN 2 ELSE None] }

InitConc ==
    /\ now = SecondsPerDay
    /\ n = [ticks |-> 0, calls |-> 0]
    /\ store \in BaseStores \cup {SeededStore}
    /\ Quiet

Begin(w, hs, prices, fetched_at_iso) ==
    LET whole == FetchAndStoreSnapshot(hs, prices, store, fetched_at_iso, now)
    IN  /\ wpc[w] = "idle"
        /\ n.calls < MaxCalls
        /\ n' = [n EXCEPT !.calls = @ + 1]
        /\ wloc' = [wloc EXCEPT ![w] =
                      [hs |-> hs, rows |-> whole.rows, stamp |-> whole.stamp,
                       pre |-> store, expect |-> whole.store,
                       combined |-> IF hs = <<>> THEN CorruptStore
                                    ELSE OkStore(whole.rows)]]
        /\ wpc' = [wpc EXCEPT ![w] = IF store.kind # "missing" THEN "read" ELSE "open"]
        /\ UNCHANGED <<now, store, res, snap, sess, sig, last_live, sec, fx, sched, thr>>

Read(w) ==
    LET rd == ReadCsv(store)
        l == wloc[w]
    IN  /\ wpc[w] = "read"
        /\ IF rd.raised \/ l.hs = <<>>
           THEN /\ wpc' = [wpc EXCEPT ![w] = "raised"]
                /\ wloc' = wloc
           ELSE /\ wpc' = [wpc EXCEPT ![w] = "open"]
                /\ wloc' = [wloc EXCEPT ![w].combined =
                              OkStore(FilterOtherDays(rd.rows, Day(l.stamp)) \o l.rows)]
        /\ UNCHANGED <<now, n, store, res, snap, sess, sig, last_live, sec, fx, sched, thr>>

Open(w) ==
    /\ wpc[w] = "open"
    /\ store' = CorruptStore
    /\ wpc' = [wpc EXCEPT ![w] = "write"]
    /\ UNCHANGED <<now, n, res, snap, sess, sig, last_live, wloc, sec, fx, sched, thr>>

Write(w) ==
    /\ wpc[w] = "write"
    /\ store' = wloc[w].combined
    /\ wpc' = [wpc EXCEPT ![w] = "done"]
    /\ UNCHANGED <<now, n, res, snap, sess, sig, last_live, wloc, sec, fx, sched, thr>>

Crash(w) ==
    /\ wpc[w] \in {"read", "open", "write"}
    /\ wpc' = [wpc EXCEPT ![w] = "crashed"]
    /\ UNCHANGED <<now, n, store, res, snap, sess, sig, last_live, wloc, sec, fx, sched, thr>>

NextConc ==
    \/ \E w \in Writers : \E hs \in FilteredHoldings : \E pr \in ConcPrices :
         \E fa \in {now, now - SecondsPerDay} : Begin(w, hs, pr, fa)
    \/ \E w \in Writers : Read(w)
    \/ \E w \in Writers : Open(w)
    \/ \E w \in Writers : Write(w)
    \/ \E w \in Writers : Crash(w)

SpecConc == InitConc /\ [][NextConc]_vars

(* A call that runs alone and is not interrupted leaves what the whole     *)
(* call computes                                                           *)
StepsAgreeWithWholeCall ==
    \A w \in Writers :
        (wpc[w] = "done" /\ n.calls = 1) => store = wloc[w].expect

----------------------------------------------------------------------------
(* Specification SpecSecondary: get_current_prices in an environment where *)
(* the API keys of the secondary sources are or are not configured and     *)
(* the secondary source holds a quote for some tickers.                    *)

InitSecondary ==
    /\ now = SecondsPerDay
    /\ n = [ticks |-> 0, calls |-> 0]
    /\ store \in BaseStores \cup {SeededStore}
    /\ QuietCore
    /\ sec \in { [av_key |-> a, fmp_key |-> f, quotes |-> q, seen |-> {}] :
                    a \in BOOLEAN, f \in BOOLEAN, q \in [Tickers -> PriceOpt] }
    /\ fx = [file |-> NoFxFile, last |-> NoFxCall, fetched |-> NoFxFetch]

NextSecondary ==
    \E ts \in {Tickers, {"A"}} : \E live \in LiveOutcomes : Resolve(ts, live)

SpecSecondary == InitSecondary /\ [][NextSecondary]_vars

----------------------------------------------------------------------------
(* Specification SpecAdapters: calls of the secondary source adapters,     *)
(* each with what the provider answers.  sec.seen collects, per adapter    *)
(* and argument, what kind of answer it was and what the adapter returned  *)
(* to its caller for it.                                                   *)

InitAdapters ==
    /\ now = 0
    /\ n = [ticks |-> 0, calls |-> 0]
    /\ store = MissingStore
    /\ QuietCore
    /\ sec = [NoSecondary EXCEPT !.av_key = TRUE, !.fmp_key = TRUE]
    /\ fx = [file |-> NoFxFile, last |-> NoFxCall, fetched |-> NoFxFetch]

Reported(adapter, ts, resp, out) ==
    [adapter |-> adapter, arg |-> ts, class |-> ResponseClass(resp, ts), out |-> out]

(* alpha_vantage.py 70-91, for one ticker *)
AlphaVantageCall(t, resp) ==
    /\ sec.av_key
    /\ n.calls < MaxCalls
    /\ n' = [n EXCEPT !.calls = @ + 1]
    /\ sec' = [sec EXCEPT !.seen = @ \cup
                  { Reported("alpha_vantage", {t}, resp,
                             fetch_prices_alpha_vantage({t}, [x \in {t} |-> resp])) }]
    /\ UNCHANGED <<now, store, res, snap, sess, sig, last_live, wpc, wloc, fx, sched, thr>>

(* fmp.py 21-83 *)
FmpCall(ts, resp) ==
    /\ sec.fmp_key
    /\ n.calls < MaxCalls
    /\ n' = [n EXCEPT !.calls = @ + 1]
    /\ sec' = [sec EXCEPT !.seen = @ \cup
                  { Reported("fmp", ts, resp, fetch_batch_quotes_fmp(ts, resp)) }]
    /\ UNCHANGED <<now, store, res, snap, sess, sig, last_live, wpc, wloc, fx, sched, thr>>

NextAdapters ==
    \/ \E t \in Tickers : \E resp \in AdapterResponses : AlphaVantageCall(t, resp)
    \/ \E ts \in {Tickers, {"A"}} : \E resp \in AdapterResponses : FmpCall(ts, resp)

SpecAdapters == InitAdapters /\ [][NextAdapters]_vars

----------------------------------------------------------------------------
(* Specification SpecFx: calls of get_fx_rates(currencies, base='CAD')     *)
(* (app.py 463) over one cache file, as time passes.                       *)

FxDeltas == {SecondsPerHour, 2 * SecondsPerHour, 11 * SecondsPerHour}

FxRequests == { {"USD"}, {"USD", "EUR"}, {"CAD", "USD"}, {"CAD"} }

InitFx ==
    /\ now = 0
    /\ n = [ticks |-> 0, calls |-> 0]
    /\ store = MissingStore
    /\ QuietCore
    /\ sec = NoSecondary
    /\ fx \in { [file |-> f, last |-> NoFxCall, fetched |-> NoFxFetch] :
                f \in {NoFxFile} \cup BrokenFxFiles }

GetFxRates(currencies, prov) ==
    LET r == get_fx_rates(currencies, "CAD", fx.file, prov, now, fx_max_age_hours)
    IN  /\ fx' = [file |-> r.post, last |-> r,
                  fetched |-> IF r.network /\ prov.kind = "success" /\ prov.write_ok
                              THEN [asked |-> FxRequested(currencies, "CAD"),
                                    table |-> prov.rates]
                              ELSE fx.fetched]
        /\ UNCHANGED <<now, n, store, res, snap, sess, sig, last_live, wpc, wloc, sec, sched, thr>>

NextFx ==
    \/ \E d \in FxDeltas : Advance(d)
    \/ \E cs \in FxRequests : \E prov \in FxProviderOutcomes : GetFxRates(cs, prov)

SpecFx == InitFx /\ [][NextFx]_vars

----------------------------------------------------------------------------
(* Specification SpecSched: the two callers that take snapshots on one     *)
(* store file: the session's 'Update daily snapshot' button and the        *)
(* scheduler's job, one whole run of the job (with the listener that       *)
(* follows it) per step.                                                   *)

InitSched ==
    /\ now = SecondsPerDay
    /\ n = [ticks |-> 0, calls |-> 0]
    /\ store \in BaseStores \cup {SeededStore}
    /\ Quiet

(* scheduler.py 98-124 and 152-166 *)
SnapshotJobRun(pf, live) ==
    LET j == SnapshotJob(pf, live, store, sched, now)
    IN  /\ n.calls < MaxCalls
        /\ n' = [n EXCEPT !.calls = @ + 1]
        /\ sched' = Listener(j.sched)
        /\ res' = j.res
        /\ snap' = j.snap
        /\ store' = j.store
        /\ last_live' = IF j.res.called THEN Observe(last_live, j.res) ELSE last_live
        /\ UNCHANGED <<now, sess, sig, wpc, wloc, sec, fx, thr>>

NextSched ==
    \/ \E live \in LiveOutcomes : PageLoad(live)
    \/ \E hs \in FilteredHoldings : UpdateSnapshot(hs)
    \/ \E pf \in PortfolioFiles : \E live \in LiveOutcomes : SnapshotJobRun(pf, live)

SpecSched == InitSched /\ [][NextSched]_vars

----------------------------------------------------------------------------
(* Specification SpecJob: the runs of the scheduled job taken one          *)
(* statement at a time, each followed by the listener call the scheduler   *)
(* makes for it, while another thread calls get_status.  Every method of   *)
(* SchedulerStatus runs under _status._lock; a setter changes one field    *)
(* inside its critical section, get_status reads the four fields one after *)
(* the other inside its own.                                               *)

(* A lock that never makes a thread wait *)
CanAcquireAlways(lock) == TRUE

(* scheduler.py 28, 36, 41, 46: `with self._lock` *)
CanAcquire(lock) == lock = "free"

JobDeltas == {SecondsPerDay}

(* What the live source does during a run *)
JobLiveOutcomes ==
    { [kind |-> "multi", px |-> [t \in Tickers |-> 1], last |-> None],
      [kind |-> "error", px |-> AllNone(Tickers), last |-> None] }

(* The positions of the job between its first statement and the end of    *)
(* its finally block: before the write of line 101, before the try body,  *)
(* inside the success branch, before the except branch's set_error, and    *)
(* before the finally block                                                *)
Started == {"w_start", "body", "s_last", "w_last", "s_clear", "w_clear", "s_err", "fin"}

(* The position after each _write_status_file call: scheduler.py 101, 113, *)
(* 115, 124 in the job and 157, 164 in the listener                        *)
AfterWrite ==
    [w_start |-> "body", w_last |-> "s_clear", w_clear |-> "fin",
     w_fin |-> "l_next", w_next |-> "l_clear", w_lclear |-> "idle"]

(* The position after each set_error call: scheduler.py 114, 120, 163 *)
AfterSetError == [s_clear |-> "w_clear", s_err |-> "fin", l_clear |-> "w_lclear"]

(* The fields get_status reads, in the order of the dict display (47-50) *)
AfterRead ==
    [last_run |-> "next_run", next_run |-> "last_error",
     last_error |-> "job_running", job_running |-> "return"]

(* The threads after a step of the job that leaves the status sch: a value *)
(* the status takes while a get_status call is under way is recorded       *)
Track(t, sch) ==
    [t EXCEPT !.during = IF t.rpc = "idle" THEN @ ELSE @ \cup {StatusDict(sch)}]

InitJob ==
    /\ now = SecondsPerDay
    /\ n = [ticks |-> 0, calls |-> 0]
    /\ store \in BaseStores \cup {SeededStore}
    /\ Quiet

(* scheduler.py 100: _status.set_running(True) *)
JobStart ==
    /\ thr.jpc = "idle"
    /\ n.calls < MaxCalls
    /\ CanAcquire(thr.lock)
    /\ n' = [n EXCEPT !.calls = @ + 1]
    /\ sched' = [sched EXCEPT !.job_running = TRUE, !.run = NoRun]
    /\ thr' = Track([thr EXCEPT !.jpc = "w_start"], sched')
    /\ res' = NotCalled
    /\ snap' = NoSnapshot
    /\ UNCHANGED <<now, store, sess, sig, last_live, wpc, wloc, sec, fx>>

(* scheduler.py 75-81 at each of its call sites: get_status under the lock *)
(* and the dump of the dict                                                *)
JobWriteFile ==
    /\ thr.jpc \in DOMAIN AfterWrite
    /\ CanAcquire(thr.lock)
    /\ sched' = WriteStatusFile(sched)
    /\ thr' = [thr EXCEPT !.jpc = AfterWrite[thr.jpc]]
    /\ UNCHANGED <<now, n, store, res, snap, sess, sig, last_live, wpc, wloc, sec, fx>>

(* scheduler.py 102-109: the try body up to the snapshot call; an          *)
(* exception leads to the except branch                                    *)
JobBody(pf, live) ==
    LET j == SnapshotJob(pf, live, store, sched, now)
    IN  /\ thr.jpc = "body"
        /\ sched' = [sched EXCEPT !.run = j.sched.run]
        /\ res' = j.res
        /\ snap' = j.snap
        /\ store' = j.store
        /\ last_live' = IF j.res.called THEN Observe(last_live, j.res) ELSE last_live
        /\ thr' = [thr EXCEPT !.jpc = IF j.sched.run.raised THEN "s_err" ELSE "s_last"]
        /\ UNCHANGED <<now, n, sess, sig, wpc, wloc, sec, fx>>

(* scheduler.py 111-112: _status.update_run_times(last=now) *)
JobSetLastRun ==
    /\ thr.jpc = "s_last"
    /\ CanAcquire(thr.lock)
    /\ sched' = [sched EXCEPT !.last_run = now]
    /\ thr' = Track([thr EXCEPT !.jpc = "w_last"], sched')
    /\ UNCHANGED <<now, n, store, res, snap, sess, sig, last_live, wpc, wloc, sec, fx>>

(* scheduler.py 114 and 163: _status.set_error(None); 120: set_error(e) *)
JobSetError ==
    /\ thr.jpc \in DOMAIN AfterSetError
    /\ CanAcquire(thr.lock)
    /\ sched' = [sched EXCEPT !.last_error = IF thr.jpc = "s_err" THEN "error"
                                              ELSE NoOrigin]
    /\ thr' = Track([thr EXCEPT !.jpc = AfterSetError[thr.jpc]], sched')
    /\ UNCHANGED <<now, n, store, res, snap, sess, sig, last_live, wpc, wloc, sec, fx>>

(* scheduler.py 122-123: finally: _status.set_running(False) *)
JobFinally ==
    /\ thr.jpc = "fin"
    /\ CanAcquire(thr.lock)
    /\ sched' = [sched EXCEPT !.job_running = FALSE]
    /\ thr' = Track([thr EXCEPT !.jpc = "w_fin"], sched')
    /\ UNCHANGED <<now, n, store, res, snap, sess, sig, last_live, wpc, wloc, sec, fx>>

(* scheduler.py 154-156: the listener's update_run_times(next_=next_rt) *)
ListenerNextRun ==
    /\ thr.jpc = "l_next"
    /\ CanAcquire(thr.lock)
    /\ sched' = [sched EXCEPT !.next_run = NextRunTime(now)]
    /\ thr' = Track([thr EXCEPT !.jpc = "w_next"], sched')
    /\ UNCHANGED <<now, n, store, res, snap, sess, sig, last_live, wpc, wloc, sec, fx>>

(* scheduler.py 46: get_status enters its critical section *)
GetStatusAcquire ==
    /\ thr.rpc = "idle"
    /\ CanAcquire(thr.lock)
    /\ thr' = [thr EXCEPT !.lock = "reader", !.rpc = "last_run", !.dict = NoDict,
                          !.during = {StatusDict(sched)}]
    /\ UNCHANGED <<now, n, store, res, snap, sess, sig, last_live, wpc, wloc, sec, fx,
                   sched>>

(* scheduler.py 47-50: one field of the dict is evaluated *)
GetStatusRead ==
    /\ thr.rpc \in DOMAIN AfterRead
    /\ thr' = [thr EXCEPT !.dict = [@ EXCEPT ![thr.rpc] = sched[thr.rpc]],
                          !.rpc = AfterRead[thr.rpc]]
    /\ UNCHANGED <<now, n, store, res, snap, sess, sig, last_live, wpc, wloc, sec, fx,
                   sched>>

(* scheduler.py 46-52: the dict is returned and the lock released *)
GetStatusReturn ==
    /\ thr.rpc = "return"
    /\ thr' = [thr EXCEPT !.lock = "free", !.rpc = "idle", !.during = {}]
    /\ UNCHANGED <<now, n, store, res, snap, sess, sig, last_live, wpc, wloc, sec, fx,
                   sched>>

(* Time passes between two runs *)
BetweenRuns(d) ==
    /\ thr.jpc = "idle"
    /\ Advance(d)

JobStep ==
    \/ JobStart
    \/ JobWriteFile
    \/ \E pf \in PortfolioFiles : \E live \in JobLiveOutcomes : JobBody(pf, live)
    \/ JobSetLastRun
    \/ JobSetError
    \/ JobFinally
    \/ ListenerNextRun

GetStatusStep ==
    \/ GetStatusAcquire
    \/ GetStatusRead
    \/ GetStatusReturn

NextJob ==
    \/ \E d \in JobDeltas : BetweenRuns(d)
    \/ JobStart
    \/ JobWriteFile
    \/ \E pf \in PortfolioFiles : \E live \in JobLiveOutcomes : JobBody(pf, live)
    \/ JobSetLastRun
    \/ JobSetError
    \/ JobFinally
    \/ ListenerNextRun
    \/ GetStatusAcquire
    \/ GetStatusRead
    \/ GetStatusReturn

(* The job's thread and the reader's thread both keep running: a thread    *)
(* waiting for the lock gets it when it is released again and again        *)
SpecJob ==
    InitJob /\ [][NextJob]_vars /\ SF_vars(JobStep) /\ WF_vars(GetStatusStep)

----------------------------------------------------------------------------
(* Properties of one get_current_prices call (SpecResolve)                 *)

(* What the live source returned for t in the call res records *)
LiveReturned(t) ==
    \/ res.live.kind = "multi" /\ res.live.px[t] # None
    \/ res.live.kind = "flat" /\ res.live.last # None

LivePriceOf(t) ==
    IF res.live.kind = "multi" THEN res.live.px[t] ELSE res.live.last

(* The rows of t in the store of the call that are inside the age window *)
WindowRows(t) ==
    { i \in 1..Len(res.st.rows) :
        /\ res.st.rows[i].ticker = t
        /\ res.st.rows[i].date >= res.at - cache_max_age_hours * SecondsPerHour }

CacheYields(t) == res.st.kind = "ok" /\ WindowRows(t) # {}

NewestRowDate(t) == Max({ res.st.rows[i].date : i \in WindowRows(t) })

Priced == { t \in res.ts : res.prices[t] # None }

(* C1: whatever the live source does (prices per ticker, empty frame,      *)
(* rate-limit exception, other exception) and whatever the store file is   *)
(* (missing, empty, populated, unparseable), get_current_prices returns    *)
(* prices for the requested tickers, a timestamp and a source, and raises  *)
(* nothing.                                                                *)
C1_NeverRaises ==
    res.called =>
        /\ ~res.raised
        /\ DOMAIN res.prices = res.ts
        /\ res.fetched_at_iso # None
        /\ res.source \in {"live", "cache", "mixed", "unknown"}

C1_Witness ==
    /\ res.called
    /\ res.live.kind \in {"ratelimit", "error"}
    /\ res.st.kind = "corrupt"

(* C2: a ticker the live source returned a price for keeps that price,     *)
(* with origin 'live' and the time of the call, whatever the cache holds   *)
(* for it.                                                                 *)
C2_LivePriceKept ==
    res.called =>
        \A t \in res.ts :
            LiveReturned(t) =>
                /\ res.prices[t] = LivePriceOf(t)
                /\ res.origins[t] = "live"
                /\ res.times[t] = res.at

C2_Witness ==
    /\ res.called
    /\ res.cache_called
    /\ \E t \in res.ts :
         /\ LiveReturned(t)
         /\ CacheYields(t)
         /\ res.cached_prices[t] # None
         /\ res.cached_prices[t] # LivePriceOf(t)

(* C8: the source is 'live' only if every priced ticker is live, 'cache'   *)
(* only if every priced ticker came from the cache, and 'mixed' exactly    *)
(* when some priced ticker is live and some priced ticker is cached;       *)
(* unpriced tickers do not count.                                          *)
C8_OverallSource ==
    res.called =>
        LET live  == { t \in Priced : res.origins[t] = "live" }
            cache == { t \in Priced : res.origins[t] = "cache" }
        IN  /\ Priced = live \cup cache
            /\ res.source = "live"  => (live # {} /\ cache = {})
            /\ res.source = "cache" => (cache # {} /\ live = {})
            /\ res.source = "mixed" <=> (live # {} /\ cache # {})

C8_Witness ==
    /\ res.called
    /\ res.ts = Tickers
    /\ res.origins["A"] = "live"
    /\ res.origins["B"] = "cache"
    /\ res.times["B"] = res.at - 30 * 60
    /\ res.source = "mixed"

C10_FetchedAtNewest ==
    res.called =>
        LET Observed(t) == IF LiveReturned(t) THEN res.at ELSE NewestRowDate(t)
        IN  res.fetched_at_iso =
                IF Priced # {} THEN Max({ Observed(t) : t \in Priced }) ELSE res.at

C10_Witness ==
    /\ res.called
    /\ Priced = Tickers
    /\ \A t \in Tickers : res.origins[t] = "cache"
    /\ res.times["A"] # res.times["B"]
    /\ res.fetched_at_iso < res.at

(* The row of t that is the newest inside the age window, the last one in *)
(* file order among those of that date                                    *)
NewestRow(t) ==
    res.st.rows[Max({ i \in WindowRows(t) : res.st.rows[i].date = NewestRowDate(t) })]

(* C11: a ticker the live source did not price is returned, when the store *)
(* has a row of it inside the age window, with the price of its newest     *)
(* such row, origin 'cache' and that row's stored time, not the time of    *)
(* the call; with no such row it has no price, no origin and no time.      *)
C11_CacheHitKeepsRowTime ==
    res.called =>
        \A t \in res.ts :
            ~LiveReturned(t) =>
                IF CacheYields(t)
                THEN /\ res.prices[t] = NewestRow(t).price
                     /\ res.origins[t] = "cache"
                     /\ res.times[t] = NewestRow(t).date
                ELSE /\ res.prices[t] = None
                     /\ res.origins[t] = NoOrigin
                     /\ res.times[t] = None

C11_Witness ==
    /\ res.called
    /\ res.ts = Tickers
    /\ ~LiveReturned("A") /\ CacheYields("A")
    /\ res.times["A"] = res.at - 72 * SecondsPerHour
    /\ res.prices["A"] = 2
    /\ ~LiveReturned("B") /\ ~CacheYields("B")
    /\ res.prices["B"] = None

----------------------------------------------------------------------------
(* Properties of sequences of whole snapshot calls (SpecSnap)              *)

RowsOfDay(rows, d) ==
    LET OnDay(r) == Day(r.date) = d
    IN  SelectSeq(rows, OnDay)

Days(rows) == { Day(rows[i].date) : i \in 1..Len(rows) }

(* C3: the store never holds rows of two calls for one UTC day, and a call *)
(* that returns leaves, for the day of its timestamp, exactly the rows it  *)
(* computed (none of an earlier call that day) and, for every other day,   *)
(* as many rows as before.                                                 *)
C3_OneRowSetPerDay ==
    /\ \A i, j \in 1..Len(store.rows) :
          Day(store.rows[i].date) = Day(store.rows[j].date)
              => store.rows[i].date = store.rows[j].date
    /\ (snap.called /\ ~snap.raised) =>
          /\ RowsOfDay(store.rows, Day(snap.stamp)) = snap.rows
          /\ \A d \in (Days(snap.pre.rows) \cup Days(store.rows)) \ {Day(snap.stamp)} :
                Len(RowsOfDay(store.rows, d)) = Len(RowsOfDay(snap.pre.rows, d))

C3_Witness ==
    /\ snap.called
    /\ ~snap.raised
    /\ snap.rows # <<>>
    /\ \E i \in 1..Len(snap.pre.rows) :
          /\ Day(snap.pre.rows[i].date) = Day(snap.stamp)
          /\ snap.pre.rows[i].date # snap.stamp
    /\ \E i \in 1..Len(snap.pre.rows) : Day(snap.pre.rows[i].date) # Day(snap.stamp)

(* The rows of a store file that are not of the day of the last call *)
OtherDayRows(rows) ==
    LET Other(r) == Day(r.date) # Day(snap.stamp)
    IN  SelectSeq(rows, Other)

(* C14: a call that returns leaves the rows of the days other than its own *)
(* as they were, in values and in order, and its new rows after them.      *)
C14_OtherDaysUntouched ==
    (snap.called /\ ~snap.raised) =>
        /\ OtherDayRows(store.rows) = OtherDayRows(snap.pre.rows)
        /\ store.rows = OtherDayRows(snap.pre.rows) \o snap.rows

C14_Witness ==
    /\ snap.called
    /\ ~snap.raised
    /\ Len(snap.rows) = 2
    /\ Len(OtherDayRows(snap.pre.rows)) = 2
    /\ OtherDayRows(snap.pre.rows)[1] # OtherDayRows(snap.pre.rows)[2]
    /\ Len(snap.pre.rows) > 2
    /\ store.rows[1] = snap.pre.rows[1]

(* C16: the rows of one call are one per holding; current_value is shares  *)
(* times the price (0 for a ticker without a price), portfolio_value is on *)
(* every row the sum of the current values, allocation_pct is              *)
(* current_value / portfolio_value, or 0 on every row when that sum is 0;  *)
(* the allocations add up to 1 when the sum is positive.                   *)
C16_RowArithmetic ==
    snap.called =>
        LET rows == snap.rows
            Price(i) == IF snap.looked_up[i] = None THEN 0 ELSE snap.looked_up[i]
            total == SumSeq([i \in 1..Len(rows) |-> rows[i].current_value])
        IN  /\ Len(rows) = Len(snap.hs)
            /\ \A i \in 1..Len(rows) :
                  /\ rows[i].ticker = snap.hs[i].ticker
                  /\ rows[i].account = snap.hs[i].account
                  /\ rows[i].price = Price(i)
                  /\ rows[i].current_value = snap.hs[i].shares * Price(i)
                  /\ rows[i].portfolio_value = total
                  /\ IF total = 0
                     THEN rows[i].allocation_pct.num = 0
                     ELSE rows[i].allocation_pct.num * total
                              = rows[i].current_value * rows[i].allocation_pct.den
            /\ total > 0 =>
                  /\ \A i \in 1..Len(rows) : rows[i].allocation_pct.den = total
                  /\ SumSeq([i \in 1..Len(rows) |-> rows[i].allocation_pct.num]) = total

C16_Witness ==
    /\ snap.called
    /\ ~snap.raised
    /\ Len(snap.rows) = 2
    /\ snap.rows[1].current_value = 4
    /\ snap.rows[2].current_value = 1
    /\ snap.rows[1].portfolio_value = 5
    /\ snap.rows[1].allocation_pct = [num |-> 4, den |-> 5]
    /\ snap.rows[2].allocation_pct = [num |-> 1, den |-> 5]

----------------------------------------------------------------------------
(* Properties of interrupted and overlapping snapshot calls (SpecConc)     *)

Range(f) == { f[i] : i \in DOMAIN f }

(* C4 as claimed: a call on a store file with rows that ends before it has *)
(* finished, having run alone, leaves the file as it was before the call   *)
(* or as the whole call would leave it.                                    *)
C4_AllOrNothing ==
    \A w \in Writers :
        (wpc[w] \in {"crashed", "raised"} /\ n.calls = 1 /\ wloc[w].pre.rows # <<>>)
            => (store = wloc[w].pre \/ store = wloc[w].expect)

(* C5 as claimed: when two calls on the same store file, each with rows to *)
(* write and for different days, have both finished, however their steps   *)
(* interleaved, the store holds the rows of both.                          *)
C5_Serialized ==
    (/\ \A w \in Writers : wpc[w] = "done" /\ wloc[w].rows # <<>>
     /\ Day(wloc["w1"].stamp) # Day(wloc["w2"].stamp))
    => \A w \in Writers : Range(wloc[w].rows) \subseteq Range(store.rows)

----------------------------------------------------------------------------
(* Properties of the session's rate-limit state (Spec)                     *)

(* C6 as claimed: a resolution at time T in which the live source raised   *)
(* the rate-limit signal leaves rate_limited_until = T + 1 hour and a      *)
(* message in last_error; one in which it raised another exception leaves  *)
(* rate_limited_until as it was.                                           *)
C6_RateLimitArmed ==
    /\ (res.called /\ res.live.kind = "ratelimit") =>
          /\ sess.rate_limited_until = res.at + RATE_LIMIT_EXTENDED_COOLDOWN
          /\ sess.last_error # NoOrigin
    /\ (res.called /\ res.live.kind = "error") =>
          sess.rate_limited_until = res.prev_rlu

(* C7 as claimed: no resolution calls the live source less than one hour   *)
(* after the last rate-limit signal.                                       *)
C7_NoLiveCallWhileBlocked ==
    (res.called /\ res.live_invoked /\ res.prev_sig # None)
        => res.at >= res.prev_sig + RATE_LIMIT_EXTENDED_COOLDOWN

----------------------------------------------------------------------------
(* Properties of the snapshots taken from the session (Spec)              *)

(* C15 as claimed: a snapshot taken from the session is written for the    *)
(* UTC day of the action, and the rows of every earlier day stay as they   *)
(* were, also when the session's prices came from the cache.               *)
C15_WrittenForToday ==
    (snap.called /\ ~snap.raised /\ snap.rows # <<>>) =>
        /\ Day(snap.stamp) = Day(now)
        /\ RowsOfDay(store.rows, Day(now)) = snap.rows
        /\ \A d \in Days(snap.pre.rows) :
              d < Day(now) => RowsOfDay(store.rows, d) = RowsOfDay(snap.pre.rows, d)

----------------------------------------------------------------------------
(* Properties of the secondary sources (SpecSecondary, SpecAdapters)       *)

(* C12 as claimed: a ticker the primary source left unpriced and for which *)
(* a configured secondary source holds a quote is returned with that       *)
(* quote and origin 'live'.                                                *)
C12_SecondaryBeforeCache ==
    res.called =>
        \A t \in res.ts :
            (/\ ~LiveReturned(t)
             /\ sec.av_key \/ sec.fmp_key
             /\ sec.quotes[t] # None)
            => /\ res.prices[t] = sec.quotes[t]
               /\ res.origins[t] = "live"

(* C20 as claimed: what an adapter returns to its caller for a rate-limit  *)
(* answer of the provider differs from what it returns, for the same       *)
(* request, when the provider has no price or cannot be reached.           *)
C20_RateLimitDistinguishable ==
    \A x, y \in sec.seen :
        (/\ x.adapter = y.adapter
         /\ x.arg = y.arg
         /\ x.class = "rate_limited"
         /\ y.class \in {"no_price", "transport_error"})
        => x.out # y.out

----------------------------------------------------------------------------
(* Properties of get_fx_rates (SpecFx)                                     *)

C18_FxNeverRaises ==
    LET c == fx.last
    IN  c.called =>
            /\ ~c.raised
            /\ DOMAIN c.out \subseteq c.currencies \ {c.base}
            /\ (c.network /\ c.prov.kind # "success") =>
                  /\ c.out = NoRates
                  /\ fx.file = c.pre

C18_Witness ==
    /\ fx.last.called
    /\ fx.last.currencies = {"CAD", "USD"}
    /\ fx.last.pre.kind \in {"corrupt", "bad_ts"}
    /\ fx.last.prov.kind \in {"network_error", "http_error"}
    /\ fx.last.out = NoRates
    /\ fx.file = fx.last.pre

----------------------------------------------------------------------------
(* Properties of a failed snapshot write (SpecSched)                       *)

(* C19 as claimed: when fetch_and_store_snapshot is called on a store file *)
(* that cannot be parsed, the call raises and leaves the file as it was;   *)
(* the session does not report the snapshot as updated; and after a run of *)
(* the job in which the call raised, the scheduler status and its status   *)
(* file carry the error.                                                   *)
C19_WriteFailureSurfaced ==
    /\ (snap.called /\ snap.pre.kind = "corrupt") =>
          /\ snap.raised
          /\ ~snap.reported
          /\ store = snap.pre
    /\ (sched.run.ran /\ sched.run.snapshot_raised
            /\ sched.run.snapshot_pre.kind = "corrupt") =>
          /\ sched.last_error # NoOrigin
          /\ sched.file.last_error # NoOrigin

----------------------------------------------------------------------------
(* Properties of a run of the scheduled job (SpecSched)                    *)

(* C21 as claimed: a run of the scheduled job that loads a portfolio of at *)
(* least one holding, get_current_prices having returned, does not raise,  *)
(* leaves in the store for the day of the run one row per holding computed *)
(* from the prices get_current_prices returned, sets last_run to the time  *)
(* of the run and leaves last_error empty.                                 *)
C21_JobWritesSnapshot ==
    LET run == sched.run
    IN  (run.ran /\ run.portfolio = "ok" /\ run.hs # <<>>) =>
            /\ ~run.raised
            /\ run.store_after.kind = "ok"
            /\ RowsOfDay(run.store_after.rows, Day(run.at))
                  = SnapshotRows(run.hs, run.prices, run.at)
            /\ sched.last_run = run.at
            /\ sched.last_error = NoOrigin
            /\ run.recorded = NoOrigin

----------------------------------------------------------------------------
(* Properties of the prices served from the store over a session (Spec)    *)

(* C22 as claimed: a ticker returned by get_current_prices with origin     *)
(* 'cache' has been priced by the live source before, and its price is not *)
(* the 0 that fetch_and_store_snapshot writes for a ticker without price.  *)
C22_UnpricedNeverCached ==
    res.called =>
        \A t \in res.ts :
            res.origins[t] = "cache" =>
                /\ last_live[t] # None
                /\ res.prices[t] # 0

(* C23 as claimed: a price returned with origin 'cache' (other than the 0  *)
(* of C22) belongs to a ticker the live source priced no more than         *)
(* cache_max_age_hours before the call; and a row written with a price     *)
(* carries a date no later than the last time the live source priced its   *)
(* ticker.                                                                 *)
C23_CacheObservedInWindow ==
    /\ res.called =>
          \A t \in res.ts :
              (res.origins[t] = "cache" /\ res.prices[t] # 0) =>
                  /\ last_live[t] # None
                  /\ res.at - last_live[t] <= cache_max_age_hours * SecondsPerHour
    /\ (snap.called /\ ~snap.raised) =>
          \A i \in 1..Len(snap.rows) :
              snap.rows[i].price # 0 =>
                  /\ last_live[snap.rows[i].ticker] # None
                  /\ snap.rows[i].date <= last_live[snap.rows[i].ticker]

----------------------------------------------------------------------------
(* Properties of snapshot calls without holdings (SpecSnap)                *)

(* C24 as claimed: a call of fetch_and_store_snapshot on a store file that *)
(* is missing or readable leaves a store file that is missing or readable; *)
(* with holdings it returns; without holdings it returns or leaves the     *)
(* store file as it was.                                                   *)
C24_StoreStaysReadable ==
    (snap.called /\ snap.pre.kind # "corrupt") =>
        /\ store.kind # "corrupt"
        /\ snap.hs # <<>> => ~snap.raised
        /\ snap.hs = <<>> => (~snap.raised \/ store = snap.pre)

----------------------------------------------------------------------------
(* Properties of the FX cache across requests (SpecFx)                     *)

(* C25 as claimed: a call answered from the cache file returns a rate for  *)
(* every requested currency that the provider's table held, with a usable  *)
(* value, at the fetch that wrote the file and holds now, whatever         *)
(* currencies that fetch was made for.                                     *)
C25_RateIndependentOfEarlierRequests ==
    LET c == fx.last
        Quoted(table, x) == x \in DOMAIN table /\ table[x] # None /\ table[x] # 0
    IN  (c.called /\ ~c.network /\ c.pre.kind = "ok" /\ c.prov.kind = "success") =>
            \A x \in c.currencies \ {c.base} :
                (Quoted(fx.fetched.table, x) /\ Quoted(c.prov.rates, x))
                    => x \in DOMAIN c.out

----------------------------------------------------------------------------
(* C26 as claimed: after a run of the job whose body raised, the scheduler *)
(* status and its status file carry a last_error (SpecSched; the state is  *)
(* that after the scheduler has called the listener for the run).          *)
C26_FailureStaysReported ==
    (sched.run.ran /\ sched.run.raised) =>
        /\ sched.last_error # NoOrigin
        /\ sched.file.last_error # NoOrigin

----------------------------------------------------------------------------
(* Properties of one call of get_current_prices, continued (SpecResolve)   *)

(* C27 as claimed: a ticker returned with origin 'live' has the price the  *)
(* response of the live source carries for that ticker.  A response with   *)
(* one column per ticker carries px[t] for t; a response that is not keyed *)
(* per ticker carries one series, which is the series of one ticker, so at *)
(* most one requested ticker can be given a live price from it.            *)
C27_LivePriceIsOwn ==
    res.called =>
        LET live == { t \in res.ts : res.origins[t] = "live" }
        IN  /\ res.live.kind = "multi" => \A t \in live : res.prices[t] = res.live.px[t]
            /\ res.live.kind = "flat" => Cardinality(live) <= 1

----------------------------------------------------------------------------
(* Properties of a snapshot taken under account filters (Spec)             *)

HasRow(rows, h, d) ==
    \E j \in 1..Len(rows) :
        /\ Day(rows[j].date) = d
        /\ rows[j].ticker = h.ticker
        /\ rows[j].account = h.account

(* C28 as claimed: after 'Update daily snapshot' has returned, every       *)
(* holding of the portfolio that had a row in the store for the day of the *)
(* snapshot still has one, whatever holdings the account filters left     *)
(* (stated for a snapshot stamped with the day of the action).             *)
C28_FilteredSnapshotKeepsOthers ==
    (snap.called /\ snap.reported /\ Day(snap.stamp) = Day(now)) =>
        \A i \in 1..Len(Portfolio) :
            HasRow(snap.pre.rows, Portfolio[i], Day(snap.stamp))
                => HasRow(store.rows, Portfolio[i], Day(snap.stamp))

----------------------------------------------------------------------------
(* Properties of the running flag and of get_status (SpecJob)              *)

(* C29: from its first statement to its finally block a run of the job has *)
(* job_running true, in the status file too once the file has been written *)
(* at the start; when the job has ended, whether its body returned or      *)
(* raised, job_running is false in the status and in the status file; the  *)
(* dict a concurrent get_status call returns is a value the status had at  *)
(* one instant of the call; and job_running, once true, becomes false      *)
(* again in the status and the file.                                       *)
C29_Invariant ==
    /\ thr.jpc \in Started => sched.job_running
    /\ thr.jpc \in Started \ {"w_start"} => sched.file.job_running
    /\ thr.jpc \notin Started => ~sched.job_running
    /\ thr.jpc \notin Started \cup {"w_fin"} => ~sched.file.job_running
    /\ thr.rpc = "return" => thr.dict \in thr.during

----------------------------------------------------------------------------
(* C30: in every result of get_current_prices the prices, the origins and  *)
(* the times are keyed by the requested tickers; a ticker has no price     *)
(* exactly when it has no origin; a ticker with origin 'live' or 'cache'   *)
(* has a price and a time; a ticker without price has no time, so that     *)
(* fetched_at is the newest time of a priced ticker, or the time of the    *)
(* call when no ticker is priced (SpecResolve).                            *)
C30_PriceIffOrigin ==
    res.called =>
        /\ DOMAIN res.prices = res.ts
        /\ DOMAIN res.origins = res.ts
        /\ DOMAIN res.times = res.ts
        /\ \A t \in res.ts :
              /\ res.prices[t] = None <=> res.origins[t] = NoOrigin
              /\ res.origins[t] \in {"live", "cache", NoOrigin}
              /\ res.origins[t] # NoOrigin =>
                    (res.prices[t] \in Nat /\ res.times[t] # None)
              /\ res.prices[t] = None => res.times[t] = None
        /\ res.fetched_at_iso =
              IF Priced = {} THEN res.at ELSE Max({ res.times[t] : t \in Priced })

C30_Witness ==
    /\ res.called
    /\ res.ts = Tickers
    /\ \E t, u \in res.ts :
          /\ res.origins[t] = "cache"
          /\ res.prices[t] \in Nat
          /\ res.times[t] < res.at
          /\ res.prices[u] = None
          /\ res.origins[u] = NoOrigin
          /\ res.times[u] = None
          /\ res.fetched_at_iso = res.times[t]

====
